---- MODULE Spec2Model ----
(***************************************************************************)
(* Model of the container Operator of wr (container/container.go).         *)
(*                                                                         *)
(* A Go string is a sequence of one-character strings, so that             *)
(* strings.TrimSuffix and strings.TrimPrefix act on characters.  A Go      *)
(* error is a record with a "kind" field; Nil is the nil error.  The map   *)
(* existingContainers only ever holds the value true, so it is the set of  *)
(* its keys.                                                               *)
(*                                                                         *)
(* Three specifications share the variables:                               *)
(*   Spec      one caller, every Operator method is one atomic action;     *)
(*   SpecPath  GetContainerIDByPath applied to a file system and a         *)
(*             scripted backend drawn by the initial state;                *)
(*   SpecConc  several goroutines sharing one Operator, one action per     *)
(*             backend query and per map access.                           *)
(***************************************************************************)
EXTENDS Integers, Sequences, FiniteSets, TLC

VARIABLES
    existingContainers, \* Operator.existingContainers, as the set of its keys
    live,               \* the list the backend would return to a list query now
    op,                 \* name of the last Operator call that returned
    arg,                \* argument of that call (name or container ID)
    ret,                \* value it returned
    err,                \* error it returned
    listed,             \* the backend's answers to the list queries of that call
    log,                \* the file reads and list queries of that call, in order
    reply,              \* the backend's answer to the stats or kill query of that call
    observed,           \* history: IDs listed to successful Remember calls
    gone,               \* history: observed IDs that have since been absent from the backend
    lastListed,         \* history: IDs listed to the latest successful Remember call
    fsExists,           \* os.Stat(cidPath) succeeds
    fsFile,             \* the file at the exact path
    fsGlob,             \* what filepath.Glob(cidPath) returns
    answers,            \* SpecPath: the backend's answers to successive list queries
    pc,                 \* SpecConc: position of each goroutine
    kind,               \* SpecConc: the method each goroutine runs
    cur,                \* SpecConc: curContainers of each goroutine
    idx,                \* SpecConc: loop position of each goroutine
    out,                \* SpecConc: newContainers of each goroutine
    snap,               \* SpecConc: map contents a racing write can complete from
    racy,               \* SpecConc: the goroutine's map write overlaps another access
    crashed,            \* SpecConc: the runtime threw "concurrent map ..." (fatal)
    atomicSets,         \* SpecConc history: sets reachable by whole unions only
    allListed,          \* SpecConc history: IDs listed to Remember calls
    home,               \* SpecTilda: what os.UserHomeDir returns
    certArgs,           \* SpecCerts: caFile, serverPemFile and serverKeyFile
    certFS              \* SpecCerts: content of each path, "absent" if none

opVars   == <<op, arg, ret, err, listed, log, reply>>
pathVars == <<fsExists, fsFile, fsGlob, answers>>
concVars == <<pc, kind, cur, idx, out, snap, racy, crashed, atomicSets, allListed>>
histVars == <<observed, gone, lastListed>>
utilVars == <<home, certArgs, certFS>>
vars     == <<existingContainers, live, opVars, histVars, pathVars, concVars, utilVars>>

(***************************************************************************)
(* Bounds                                                                  *)
(***************************************************************************)
MaxLive    == 3   \* longest list the backend returns
MaxMatches == 3   \* most files a glob expansion returns
MaxQueries == 2   \* scripted answers of the backend in SpecPath
NumProcs   == 2   \* goroutines in SpecConc
MaxPathLen == 4   \* longest path given to TildaToHome

(***************************************************************************)
(* Strings                                                                 *)
(***************************************************************************)
EmptyStr == << >>

HasSuffix(s, suffix) ==
    /\ Len(s) >= Len(suffix)
    /\ SubSeq(s, Len(s) - Len(suffix) + 1, Len(s)) = suffix

TrimSuffix(s, suffix) ==
    IF HasSuffix(s, suffix) THEN SubSeq(s, 1, Len(s) - Len(suffix)) ELSE s

HasPrefix(s, prefix) ==
    /\ Len(s) >= Len(prefix)
    /\ SubSeq(s, 1, Len(prefix)) = prefix

TrimPrefix(s, prefix) ==
    IF HasPrefix(s, prefix) THEN SubSeq(s, Len(prefix) + 1, Len(s)) ELSE s

\* strings.TrimLeft: s without its leading characters that are in cutset
RECURSIVE TrimLeft(_, _)
TrimLeft(s, cutset) ==
    IF Len(s) > 0 /\ s[1] \in cutset THEN TrimLeft(Tail(s), cutset) ELSE s

(***************************************************************************)
(* Errors                                                                  *)
(***************************************************************************)
Nil == [kind |-> "nil"]

ErrContainerList  == "Could not list the containers"
ErrContainerStats == "Could not get the container stats"
ErrContainerKill  == "Container could not be killed"

OperatorErr(type, cause) == [kind |-> "OperatorErr", Type |-> type, Err |-> cause]

\* errors of the collaborators
ErrBackend    == [kind |-> "backend", msg |-> "daemon unreachable"]
ErrCanceled   == [kind |-> "backend", msg |-> "context canceled"]
ErrRead       == [kind |-> "fs", msg |-> "read failed"]
ErrBadPattern == [kind |-> "glob", msg |-> "syntax error in pattern"]

BackendErrs == {ErrBackend, ErrCanceled}

(***************************************************************************)
(* Containers and the backend                                              *)
(***************************************************************************)
Container(id, names) == [ID |-> id, Names |-> names]

ContA == Container(<<"a">>, << <<"/", "f">> >>)
ContB == Container(<<"b">>, << <<"f">>, <<"/", "g">> >>)
ContC == Container(<<"c">>, << <<"/", "/", "f">> >>)

Containers == {ContA, ContB, ContC}
IDs        == {c.ID : c \in Containers}

NoRepeat(s) == \A i, j \in 1..Len(s) : i # j => s[i].ID # s[j].ID

SeqsUpTo(S, n) == UNION {[1..k -> S] : k \in 0..n}

\* the lists a backend can return: an ID names at most one live container
LiveLists == {l \in SeqsUpTo(Containers, MaxLive) : NoRepeat(l)}

\* the two results of Interactor.ContainerList
ListOK(l)   == [list |-> l, err |-> Nil]
ListFail(e) == [list |-> << >>, err |-> e]

\* what a list query can answer while the backend holds l
ClientAnswers(l) == {ListOK(l)} \cup {ListFail(e) : e \in BackendErrs}

IDsOf(l) == {l[i].ID : i \in 1..Len(l)}

(***************************************************************************)
(* Operator: list, checkpoint and diff                                     *)
(***************************************************************************)
Result(v, e) == [val |-> v, err |-> e]

GetCurrentContainers(answer) ==
    IF answer.err # Nil
    THEN Result(<< >>, OperatorErr(ErrContainerList, answer.err))
    ELSE Result(answer.list, Nil)

\* RememberLoop with the first container of the list left out
RECURSIVE RememberLoopSkipsFirst(_, _, _)
RememberLoopSkipsFirst(curContainers, existing, i) ==
    IF i > Len(curContainers) THEN existing
    ELSE RememberLoopSkipsFirst(curContainers,
             IF i = 1 THEN existing ELSE existing \cup {curContainers[i].ID}, i + 1)

\* the loop of RememberCurrentContainerIDs from position i on
RECURSIVE RememberLoop(_, _, _)
RememberLoop(curContainers, existing, i) ==
    IF i > Len(curContainers) THEN existing
    ELSE RememberLoop(curContainers, existing \cup {curContainers[i].ID}, i + 1)

\* RememberCurrentContainerIDs that starts from a fresh map on every call
RememberReplaces(answer, existing) ==
    LET got == GetCurrentContainers(answer) IN
    IF got.err # Nil THEN Result(existing, got.err)
    ELSE Result(RememberLoop(got.val, {}, 1), Nil)

\* RememberCurrentContainerIDs that empties the map when the list query fails
RememberClearsOnFailure(answer, existing) ==
    LET got == GetCurrentContainers(answer) IN
    IF got.err # Nil THEN Result({}, got.err)
    ELSE Result(RememberLoop(got.val, existing, 1), Nil)

\* val is the map after the call
RememberCurrentContainerIDs(answer, existing) ==
    LET got == GetCurrentContainers(answer) IN
    IF got.err # Nil THEN Result(existing, got.err)
    ELSE Result(RememberLoop(got.val, existing, 1), Nil)

\* GetNewLoop that puts each new container in front of the earlier ones
RECURSIVE GetNewLoopPrepends(_, _, _, _)
GetNewLoopPrepends(curContainers, existing, i, newContainers) ==
    IF i > Len(curContainers) THEN newContainers
    ELSE GetNewLoopPrepends(curContainers, existing, i + 1,
                    IF curContainers[i].ID \notin existing
                    THEN <<curContainers[i]>> \o newContainers
                    ELSE newContainers)

\* the loop of GetNewContainers from position i on
RECURSIVE GetNewLoop(_, _, _, _)
GetNewLoop(curContainers, existing, i, newContainers) ==
    IF i > Len(curContainers) THEN newContainers
    ELSE GetNewLoop(curContainers, existing, i + 1,
                    IF curContainers[i].ID \notin existing
                    THEN Append(newContainers, curContainers[i])
                    ELSE newContainers)

\* GetNewContainers that hands out the delta it computed on its last successful
\* call, when there was one, instead of querying again
GetNewContainersStored(answer, existing) ==
    IF op = "GetNewContainers" /\ err = Nil THEN Result(ret, Nil)
    ELSE LET got == GetCurrentContainers(answer) IN
         IF got.err # Nil THEN Result(<< >>, got.err)
         ELSE Result(GetNewLoop(got.val, existing, 1, << >>), Nil)

GetNewContainers(answer, existing) ==
    LET got == GetCurrentContainers(answer) IN
    IF got.err # Nil THEN Result(<< >>, got.err)
    ELSE Result(GetNewLoop(got.val, existing, 1, << >>), Nil)

GetNewContainerIDs(answer, existing) ==
    LET new == GetNewContainers(answer, existing) IN
    IF new.err # Nil THEN Result(<< >>, new.err)
    ELSE Result([i \in 1..Len(new.val) |-> new.val[i].ID], Nil)

\* HasNameLoop that trims every leading "/" of an alias
RECURSIVE HasNameLoopTrimsAll(_, _, _)
HasNameLoopTrimsAll(name, names, i) ==
    IF i > Len(names) THEN FALSE
    ELSE IF TrimLeft(names[i], {"/"}) = name THEN TRUE
    ELSE HasNameLoopTrimsAll(name, names, i + 1)

\* HasName: some alias equals name once one leading "/" is trimmed
RECURSIVE HasNameLoop(_, _, _)
HasNameLoop(name, names, i) ==
    IF i > Len(names) THEN FALSE
    ELSE IF TrimPrefix(names[i], <<"/">>) = name THEN TRUE
    ELSE HasNameLoop(name, names, i + 1)

HasName(name, container) == HasNameLoop(name, container.Names, 1)

\* the loop of GetNewContainerIDByName from position i on
RECURSIVE ByNameLoop(_, _, _)
ByNameLoop(name, newContainers, i) ==
    IF i > Len(newContainers) THEN EmptyStr
    ELSE IF HasName(name, newContainers[i]) THEN newContainers[i].ID
    ELSE ByNameLoop(name, newContainers, i + 1)

GetNewContainerIDByName(answer, existing, name) ==
    LET new == GetNewContainers(answer, existing) IN
    IF new.err # Nil THEN Result(EmptyStr, new.err)
    ELSE Result(ByNameLoop(name, new.val, 1), Nil)

(***************************************************************************)
(* Operator: stats and kill                                                *)
(***************************************************************************)
Stats(mem, cpu) == [MemoryMB |-> mem, CPUSec |-> cpu]
NilStats        == [nil |-> TRUE]

\* the results of Interactor.ContainerStats and Interactor.ContainerKill
StatsAnswers == {[stats |-> Stats(10, 3), err |-> Nil], [stats |-> Stats(0, 0), err |-> Nil]}
                \cup {[stats |-> NilStats, err |-> e] : e \in BackendErrs}
KillAnswers  == {Nil} \cup BackendErrs

\* ContainerStats that wraps the backend's error as a list failure is wrapped
ContainerStatsWraps(answer) ==
    IF answer.err # Nil THEN Result(NilStats, OperatorErr(ErrContainerStats, answer.err))
    ELSE Result(answer.stats, Nil)

ContainerStats(answer) ==
    IF answer.err # Nil THEN Result(NilStats, answer.err)
    ELSE Result(answer.stats, Nil)

KillContainer(answer) == answer

(***************************************************************************)
(* Operator: identity resolution from a path                               *)
(*                                                                         *)
(* A file is what fs.ReadFile returns for it.  During one call the k-th    *)
(* list query gets the k-th scripted answer of the backend (the last one   *)
(* again once the script is used up).  Every operator returns, with its    *)
(* Go results, the events of the call: the reads (match number, 0 for the  *)
(* exact path) and the list queries (number of the answer).                *)
(***************************************************************************)
LF == "\n"
CR == "\r"

File(content)  == [content |-> content, err |-> Nil]
UnreadableFile == [content |-> EmptyStr, err |-> ErrRead]

ReadEv(i) == [ev |-> "read", n |-> i]
ListEv(k) == [ev |-> "list", n |-> k]

AnswerAt(script, k) == IF k <= Len(script) THEN script[k] ELSE script[Len(script)]

\* verifyLoop that is content with any live container
verifyLoopAnyContainer(curContainers, id, i) == i <= Len(curContainers)

\* verifyID as the (k+1)-th list query of the call
RECURSIVE verifyLoop(_, _, _)
verifyLoop(curContainers, id, i) ==
    IF i > Len(curContainers) THEN FALSE
    ELSE IF curContainers[i].ID = id THEN TRUE
    ELSE verifyLoop(curContainers, id, i + 1)

verifyID(script, k, id) ==
    LET got == GetCurrentContainers(AnswerAt(script, k + 1)) IN
    IF got.err # Nil THEN [ok |-> FALSE, err |-> got.err]
    ELSE [ok |-> verifyLoop(got.val, id, 1), err |-> Nil]

\* cidPathToID that reports an ID matching no live container as an error
cidPathToIDMissIsError(file, i, script, k) ==
    IF file.err # Nil
    THEN [id |-> EmptyStr, err |-> file.err, evs |-> <<ReadEv(i)>>, k |-> k]
    ELSE LET id == TrimSuffix(file.content, <<LF>>)
             v  == verifyID(script, k, id)
         IN  [id  |-> IF v.ok THEN id ELSE EmptyStr,
              err |-> IF v.ok THEN Nil
                      ELSE IF v.err # Nil THEN v.err ELSE ErrRead,
              evs |-> <<ReadEv(i), ListEv(k + 1)>>,
              k   |-> k + 1]

\* cidPathToID that removes up to two trailing newlines
cidPathToIDTrimsTwice(file, i, script, k) ==
    IF file.err # Nil
    THEN [id |-> EmptyStr, err |-> file.err, evs |-> <<ReadEv(i)>>, k |-> k]
    ELSE LET id == TrimSuffix(TrimSuffix(file.content, <<LF>>), <<LF>>)
             v  == verifyID(script, k, id)
         IN  [id  |-> IF v.ok THEN id ELSE EmptyStr,
              err |-> IF v.ok THEN Nil ELSE v.err,
              evs |-> <<ReadEv(i), ListEv(k + 1)>>,
              k   |-> k + 1]

\* cidPathToID that reports a file it cannot read as holding no ID
cidPathToIDReadErrIsMiss(file, i, script, k) ==
    IF file.err # Nil
    THEN [id |-> EmptyStr, err |-> Nil, evs |-> <<ReadEv(i)>>, k |-> k]
    ELSE LET id == TrimSuffix(file.content, <<LF>>)
             v  == verifyID(script, k, id)
         IN  [id  |-> IF v.ok THEN id ELSE EmptyStr,
              err |-> IF v.ok THEN Nil ELSE v.err,
              evs |-> <<ReadEv(i), ListEv(k + 1)>>,
              k   |-> k + 1]

\* cidPathToID on match number i, after k list queries
cidPathToID(file, i, script, k) ==
    IF file.err # Nil
    THEN [id |-> EmptyStr, err |-> file.err, evs |-> <<ReadEv(i)>>, k |-> k]
    ELSE LET id == TrimSuffix(file.content, <<LF>>)
             v  == verifyID(script, k, id)
         IN  [id  |-> IF v.ok THEN id ELSE EmptyStr,
              err |-> IF v.ok THEN Nil ELSE v.err,
              evs |-> <<ReadEv(i), ListEv(k + 1)>>,
              k   |-> k + 1]

\* globLoop that gives up at the first match that cannot be read or verified
RECURSIVE globLoopStopsOnError(_, _, _, _, _)
globLoopStopsOnError(paths, i, script, k, evs) ==
    IF i > Len(paths) THEN [id |-> EmptyStr, err |-> Nil, evs |-> evs, k |-> k]
    ELSE LET r == cidPathToID(paths[i], i, script, k) IN
         IF r.err # Nil
         THEN [id |-> EmptyStr, err |-> r.err, evs |-> evs \o r.evs, k |-> r.k]
         ELSE IF r.id # EmptyStr
              THEN [id |-> r.id, err |-> Nil, evs |-> evs \o r.evs, k |-> r.k]
              ELSE globLoopStopsOnError(paths, i + 1, script, r.k, evs \o r.evs)

\* the loop of cidPathGlobToID from match i on, after k list queries
RECURSIVE globLoop(_, _, _, _, _)
globLoop(paths, i, script, k, evs) ==
    IF i > Len(paths) THEN [id |-> EmptyStr, err |-> Nil, evs |-> evs, k |-> k]
    ELSE LET r == cidPathToID(paths[i], i, script, k) IN
         IF r.err # Nil THEN globLoop(paths, i + 1, script, r.k, evs \o r.evs)
         ELSE IF r.id # EmptyStr
              THEN [id |-> r.id, err |-> Nil, evs |-> evs \o r.evs, k |-> r.k]
              ELSE globLoop(paths, i + 1, script, r.k, evs \o r.evs)

\* cidPathGlobToID that treats a failed expansion as no match
cidPathGlobToIDIgnoresGlobErr(glob, script) ==
    globLoop(glob.paths, 1, script, 0, << >>)

\* glob is the result of filepath.Glob: the matched files, or an error
cidPathGlobToID(glob, script) ==
    IF glob.err # Nil THEN [id |-> EmptyStr, err |-> glob.err, evs |-> << >>, k |-> 0]
    ELSE globLoop(glob.paths, 1, script, 0, << >>)

\* GetContainerIDByPath that goes on to the glob when the file at the exact
\* path yields no ID
GetContainerIDByPathFallsBack(exists, file, glob, script) ==
    IF exists
    THEN LET r == cidPathToID(file, 0, script, 0) IN
         IF r.id # EmptyStr \/ r.err # Nil THEN r ELSE cidPathGlobToID(glob, script)
    ELSE cidPathGlobToID(glob, script)

GetContainerIDByPath(exists, file, glob, script) ==
    IF exists THEN cidPathToID(file, 0, script, 0)
    ELSE cidPathGlobToID(glob, script)

(***************************************************************************)
(* Inputs                                                                  *)
(***************************************************************************)
QueryNames == {<<"f">>, <<"g">>, <<"/", "f">>, <<"h">>}

FileContents == {<<"a">>, <<"a", LF>>, <<"a", LF, LF>>, <<"a", CR, LF>>,
                 <<"a", LF, "b">>, <<"b", LF>>}
Files        == {File(c) : c \in FileContents} \cup {UnreadableFile}

\* the files a glob expansion matches
MatchContents == {<<"a">>, <<"a", LF>>, <<"b", LF>>}
MatchFiles    == {File(c) : c \in MatchContents} \cup {UnreadableFile}

GlobOK(paths) == [paths |-> paths, err |-> Nil]
GlobBad       == [paths |-> << >>, err |-> ErrBadPattern]
Globs         == {GlobBad} \cup {GlobOK(ps) : ps \in SeqsUpTo(MatchFiles, MaxMatches)}

PathIDs     == {ContA.ID, ContB.ID}
PathLists   == {l \in LiveLists : IDsOf(l) \subseteq PathIDs}
PathAnswers == {ListOK(l) : l \in PathLists} \cup {ListFail(e) : e \in BackendErrs}
Scripts     == [1..MaxQueries -> PathAnswers]

Procs == 1..NumProcs

(***************************************************************************)
(* Initial states                                                          *)
(***************************************************************************)
\* no stats or kill query was made
NoReply == [err |-> Nil]

NoCall ==
    /\ op = "NewOperator"
    /\ arg = EmptyStr
    /\ ret = << >>
    /\ err = Nil
    /\ listed = << >>
    /\ log = << >>
    /\ reply = NoReply

NoPath ==
    /\ fsExists = FALSE
    /\ fsFile = UnreadableFile
    /\ fsGlob = GlobOK(<< >>)
    /\ answers = << >>

NoProcs ==
    /\ pc = [p \in Procs |-> "idle"]
    /\ kind = [p \in Procs |-> "none"]
    /\ cur = [p \in Procs |-> << >>]
    /\ idx = [p \in Procs |-> 0]
    /\ out = [p \in Procs |-> << >>]
    /\ snap = [p \in Procs |-> {}]
    /\ racy = [p \in Procs |-> FALSE]
    /\ crashed = FALSE
    /\ atomicSets = {{}}
    /\ allListed = {}

NoUtil ==
    /\ home = [dir |-> EmptyStr, err |-> Nil]
    /\ certArgs = << >>
    /\ certFS = << >>

\* NewOperator: an empty map, over a backend in any state
Init ==
    /\ existingContainers = {}
    /\ observed = {}
    /\ gone = {}
    /\ lastListed = {}
    /\ live \in LiveLists
    /\ NoUtil
    /\ NoCall
    /\ NoPath
    /\ NoProcs

(***************************************************************************)
(* Spec: one caller, one action per Operator method                        *)
(***************************************************************************)
Returned(o, a, r, e, ls) ==
    /\ op' = o
    /\ arg' = a
    /\ ret' = r
    /\ err' = e
    /\ listed' = ls
    /\ log' = [k \in 1..Len(ls) |-> ListEv(k)]

\* containers start and stop outside the Operator's control
BackendChange ==
    /\ live' \in LiveLists \ {live}
    /\ gone' = gone \cup (observed \ IDsOf(live'))
    /\ UNCHANGED <<existingContainers, observed, lastListed, opVars, pathVars, utilVars, concVars>>

CallGetCurrentContainers ==
    \E answer \in ClientAnswers(live) :
        LET r == GetCurrentContainers(answer) IN
        /\ Returned("GetCurrentContainers", EmptyStr, r.val, r.err, <<answer>>)
        /\ reply' = NoReply
        /\ UNCHANGED <<existingContainers, histVars, live, pathVars, utilVars, concVars>>

CallRememberCurrentContainerIDs ==
    \E answer \in ClientAnswers(live) :
        LET r == RememberCurrentContainerIDs(answer, existingContainers) IN
        /\ existingContainers' = r.val
        /\ observed' = IF answer.err = Nil THEN observed \cup IDsOf(answer.list)
                       ELSE observed
        /\ lastListed' = IF answer.err = Nil THEN IDsOf(answer.list) ELSE lastListed
        /\ Returned("RememberCurrentContainerIDs", EmptyStr, << >>, r.err, <<answer>>)
        /\ reply' = NoReply
        /\ UNCHANGED <<live, gone, pathVars, utilVars, concVars>>

CallGetNewContainers ==
    \E answer \in ClientAnswers(live) :
        LET r == GetNewContainers(answer, existingContainers) IN
        /\ Returned("GetNewContainers", EmptyStr, r.val, r.err, <<answer>>)
        /\ reply' = NoReply
        /\ UNCHANGED <<existingContainers, histVars, live, pathVars, utilVars, concVars>>

CallGetNewContainerIDs ==
    \E answer \in ClientAnswers(live) :
        LET r == GetNewContainerIDs(answer, existingContainers) IN
        /\ Returned("GetNewContainerIDs", EmptyStr, r.val, r.err, <<answer>>)
        /\ reply' = NoReply
        /\ UNCHANGED <<existingContainers, histVars, live, pathVars, utilVars, concVars>>

CallGetNewContainerIDByName ==
    \E answer \in ClientAnswers(live), name \in QueryNames :
        LET r == GetNewContainerIDByName(answer, existingContainers, name) IN
        /\ Returned("GetNewContainerIDByName", name, r.val, r.err, <<answer>>)
        /\ reply' = NoReply
        /\ UNCHANGED <<existingContainers, histVars, live, pathVars, utilVars, concVars>>

CallContainerStats ==
    \E answer \in StatsAnswers, id \in IDs :
        LET r == ContainerStats(answer) IN
        /\ Returned("ContainerStats", id, r.val, r.err, << >>)
        /\ reply' = answer
        /\ UNCHANGED <<existingContainers, histVars, live, pathVars, utilVars, concVars>>

\* the ID files and glob results GetContainerIDByPath meets between the
\* other calls
LivePaths ==
    {[exists |-> TRUE, file |-> f, glob |-> GlobBad] :
        f \in {UnreadableFile, File(<<"a", LF>>)}}
    \cup {[exists |-> FALSE, file |-> UnreadableFile, glob |-> g] :
             g \in {GlobBad, GlobOK(<< >>), GlobOK(<<File(<<"a", LF>>)>>),
                    GlobOK(<<UnreadableFile, File(<<"b", LF>>)>>)}}

\* GetContainerIDByPath called on the Operator in use; the list queries of
\* the call are all answered from the live containers, or all fail
CallGetContainerIDByPathLive ==
    \E path \in LivePaths, answer \in ClientAnswers(live) :
        LET script == <<answer>>
            r      == GetContainerIDByPath(path.exists, path.file, path.glob, script) IN
        /\ op' = "GetContainerIDByPath"
        /\ arg' = EmptyStr
        /\ ret' = r.id
        /\ err' = r.err
        /\ listed' = [k \in 1..r.k |-> AnswerAt(script, k)]
        /\ log' = r.evs
        /\ reply' = NoReply
        /\ UNCHANGED <<existingContainers, histVars, live, pathVars, utilVars, concVars>>

\* KillContainer that also forgets the killed container
CallKillContainerForgets ==
    \E answer \in KillAnswers, id \in IDs :
        /\ Returned("KillContainer", id, << >>, KillContainer(answer), << >>)
        /\ reply' = [err |-> answer]
        /\ live' \in {live} \cup
                     {l \in {SelectSeq(live, LAMBDA c : c.ID # id)} : answer = Nil}
        /\ gone' = gone \cup (observed \ IDsOf(live'))
        /\ existingContainers' = IF answer = Nil THEN existingContainers \ {id}
                                  ELSE existingContainers
        /\ UNCHANGED <<observed, lastListed, pathVars, utilVars, concVars>>

\* a killed container leaves the backend's list at once or later
CallKillContainer ==
    \E answer \in KillAnswers, id \in IDs :
        /\ Returned("KillContainer", id, << >>, KillContainer(answer), << >>)
        /\ reply' = [err |-> answer]
        /\ live' \in {live} \cup
                     {l \in {SelectSeq(live, LAMBDA c : c.ID # id)} : answer = Nil}
        /\ gone' = gone \cup (observed \ IDsOf(live'))
        /\ UNCHANGED <<existingContainers, observed, lastListed, pathVars, utilVars, concVars>>

Next ==
    \/ BackendChange
    \/ CallGetCurrentContainers
    \/ CallRememberCurrentContainerIDs
    \/ CallGetNewContainers
    \/ CallGetNewContainerIDs
    \/ CallGetNewContainerIDByName
    \/ CallGetContainerIDByPathLive
    \/ CallContainerStats
    \/ CallKillContainer

Spec == Init /\ [][Next]_vars

(***************************************************************************)
(* SpecPath: GetContainerIDByPath over every file system and script        *)
(***************************************************************************)
InitPath ==
    /\ existingContainers \in SUBSET PathIDs
    /\ observed = existingContainers
    /\ gone = {}
    /\ lastListed = existingContainers
    /\ live = << >>
    /\ NoUtil
    /\ NoCall
    /\ fsExists \in BOOLEAN
    /\ fsFile \in (IF fsExists THEN Files ELSE {UnreadableFile})
    /\ fsGlob \in Globs
    /\ answers \in Scripts
    /\ NoProcs

CallGetContainerIDByPath ==
    /\ op = "NewOperator"
    /\ LET r == GetContainerIDByPath(fsExists, fsFile, fsGlob, answers) IN
       /\ op' = "GetContainerIDByPath"
       /\ arg' = EmptyStr
       /\ ret' = r.id
       /\ err' = r.err
       /\ listed' = [k \in 1..r.k |-> AnswerAt(answers, k)]
       /\ log' = r.evs
       /\ reply' = NoReply
    /\ UNCHANGED <<existingContainers, histVars, live, pathVars, utilVars, concVars>>

NextPath == CallGetContainerIDByPath

SpecPath == InitPath /\ [][NextPath]_vars

(***************************************************************************)
(* Properties of the checkpoint and the diff (Spec)                        *)
(***************************************************************************)
IsGetNew == op \in {"GetNewContainers", "GetNewContainerIDs", "GetNewContainerIDByName"}

\* the list the backend returned to the one list query of the last call
ListedC == listed[1].list

\* C1: GetNewContainers returns exactly the containers of the listed C whose
\* ID is not in the remembered set R, in C's order, and GetNewContainerIDs
\* returns the IDs of that same sequence in the same order.
C1_NewIsOrderedDiff ==
    LET diff == SelectSeq(ListedC, LAMBDA c : c.ID \notin existingContainers) IN
    /\ (op = "GetNewContainers" /\ err = Nil) => ret = diff
    /\ (op = "GetNewContainerIDs" /\ err = Nil) =>
           /\ Len(ret) = Len(diff)
           /\ \A i \in 1..Len(diff) : ret[i] = diff[i].ID

\* two new containers reported around a remembered one
C1_Witness ==
    /\ op = "GetNewContainerIDs"
    /\ err = Nil
    /\ Len(ListedC) = 3
    /\ ListedC[2].ID \in existingContainers
    /\ ret = <<ListedC[1].ID, ListedC[3].ID>>

\* C2: the remembered set is empty when NewOperator returns; after any number
\* of successful RememberCurrentContainerIDs calls it is the union of the live
\* ID sets the backend returned to them; a second call against an unchanged
\* backend answer leaves the set as it was after the first.
C2_RememberedIsUnion ==
    /\ op = "NewOperator" => existingContainers = {}
    /\ existingContainers = observed
    /\ (op = "RememberCurrentContainerIDs" /\ err = Nil) =>
           RememberCurrentContainerIDs(listed[1], existingContainers).val
               = existingContainers

\* a successful Remember added to IDs kept from an earlier one
C2_Witness ==
    /\ op = "RememberCurrentContainerIDs"
    /\ err = Nil
    /\ Len(ListedC) = 2
    /\ existingContainers = IDs

\* C5: an ID that was in the live list of a successful
\* RememberCurrentContainerIDs call is never returned by a later
\* GetNewContainers, GetNewContainerIDs or GetNewContainerIDByName call,
\* whatever happened to the backend in between.
C5_NeverForgotten ==
    (IsGetNew /\ err = Nil) =>
        /\ op = "GetNewContainers" => \A i \in 1..Len(ret) : ret[i].ID \notin observed
        /\ op = "GetNewContainerIDs" => \A i \in 1..Len(ret) : ret[i] \notin observed
        /\ op = "GetNewContainerIDByName" => ret \notin observed

\* a remembered container went away, came back, and is not reported while
\* another container is
C5_Witness ==
    /\ op = "GetNewContainers"
    /\ err = Nil
    /\ ret # << >>
    /\ IDsOf(ListedC) \cap gone # {}

(***************************************************************************)
(* Properties of GetContainerIDByPath (SpecPath)                           *)
(***************************************************************************)
ByPathDone == op = "GetContainerIDByPath"

\* match number i of the call: 0 is the file at the exact path
MatchFile(i) == IF i = 0 THEN fsFile ELSE fsGlob.paths[i]

\* the candidate ID of a readable file: its content less one final newline
Candidate(f) ==
    IF Len(f.content) > 0 /\ f.content[Len(f.content)] = LF
    THEN [j \in 1..(Len(f.content) - 1) |-> f.content[j]]
    ELSE f.content

Readable(f) == f.err = Nil

\* the list query that follows the read of glob match i is the q-th of the
\* call when q of the matches 1..i are readable
QueryOf(i) == Cardinality({j \in 1..i : Readable(fsGlob.paths[j])})

\* glob match i is readable and its candidate is in the list then returned
Verifies(i) ==
    /\ Readable(fsGlob.paths[i])
    /\ AnswerAt(answers, QueryOf(i)).err = Nil
    /\ Candidate(fsGlob.paths[i]) \in IDsOf(AnswerAt(answers, QueryOf(i)).list)

Verifying == {i \in 1..Len(fsGlob.paths) : Verifies(i)}

FirstVerifying == CHOOSE i \in Verifying : \A j \in Verifying : i <= j

ReadsOf(l) == SelectSeq(l, LAMBDA e : e.ev = "read")
ListsOf(l) == SelectSeq(l, LAMBDA e : e.ev = "list")

\* C6: a non-empty ID returned by GetContainerIDByPath is the content, less
\* one trailing newline, of a file the call read, and is the ID of a container
\* in a list the backend returned to a list query the call made after that
\* read; it may be a remembered ID or not.
C6_NoStaleID ==
    (ByPathDone /\ ret # EmptyStr) =>
        \E r, q \in 1..Len(log) :
            /\ r < q
            /\ log[r].ev = "read"
            /\ log[q].ev = "list"
            /\ Readable(MatchFile(log[r].n))
            /\ MatchFile(log[r].n).content \in {ret, ret \o <<LF>>}
            /\ listed[log[q].n].err = Nil
            /\ ret \in IDsOf(listed[log[q].n].list)

\* the second glob match resolves to a remembered container after the backend
\* answered the first query with another list
C6_Witness ==
    /\ ByPathDone
    /\ ~fsExists
    /\ ret \in existingContainers
    /\ Len(listed) = 2
    /\ listed[1].err = Nil
    /\ ret \notin IDsOf(listed[1].list)
    /\ ret \in IDsOf(listed[2].list)

\* C7: with a readable file at the exact path and a successful list query,
\* GetContainerIDByPath returns (id, nil) when the file's candidate ID is the
\* ID of a live container and ("", nil) when it is the ID of none.
C7_ExactPathHitOrSoftMiss ==
    (ByPathDone /\ fsExists /\ Readable(fsFile) /\ AnswerAt(answers, 1).err = Nil) =>
        /\ err = Nil
        /\ ret = IF Candidate(fsFile) \in IDsOf(AnswerAt(answers, 1).list)
                 THEN Candidate(fsFile) ELSE EmptyStr

\* a stale ID file at the exact path is a soft miss
C7_Witness ==
    /\ ByPathDone
    /\ fsExists
    /\ fsFile = File(<<"a", LF>>)
    /\ Len(listed) = 1
    /\ listed[1] = ListOK(<<ContB>>)
    /\ ret = EmptyStr
    /\ err = Nil

\* C8: with no file at the exact path, the matches are taken in glob order and
\* the ID of the first one that verifies is returned; the earlier ones were
\* read and skipped, and after the verifying list query nothing more is read
\* or queried.
C8_FirstVerifyingMatch ==
    (ByPathDone /\ ~fsExists /\ fsGlob.err = Nil /\ Verifying # {}) =>
        LET m == FirstVerifying IN
        /\ ret = Candidate(fsGlob.paths[m])
        /\ err = Nil
        /\ ReadsOf(log) = [i \in 1..m |-> ReadEv(i)]
        /\ ListsOf(log) = [k \in 1..QueryOf(m) |-> ListEv(k)]
        /\ log[Len(log)] = ListEv(QueryOf(m))

\* an unreadable first match and a stale second one are skipped, the third
\* verifies
C8_Witness ==
    /\ ByPathDone
    /\ ~fsExists
    /\ Len(fsGlob.paths) = 3
    /\ ~Readable(fsGlob.paths[1])
    /\ Readable(fsGlob.paths[2])
    /\ Verifying = {3}
    /\ ret = Candidate(fsGlob.paths[3])

\* C9: with no file at the exact path, GetContainerIDByPath returns ("", nil)
\* when the glob matches nothing or no match yields a live ID, and ("", err)
\* with the glob engine's error when the pattern is malformed.
C9_SoftMissVersusHardError ==
    (ByPathDone /\ ~fsExists) =>
        /\ fsGlob.err # Nil => (ret = EmptyStr /\ err = fsGlob.err /\ err # Nil)
        /\ (fsGlob.err = Nil /\ Verifying = {}) => (ret = EmptyStr /\ err = Nil)

\* matches exist but none holds a live ID
C9_Witness ==
    /\ ByPathDone
    /\ ~fsExists
    /\ Len(fsGlob.paths) = 2
    /\ \A i \in 1..2 : Readable(fsGlob.paths[i])
    /\ \A k \in 1..2 : answers[k].err = Nil
    /\ Verifying = {}
    /\ ret = EmptyStr
    /\ err = Nil

\* the other outcome of C9: a malformed pattern is an error
C9_HardErrorReached == ByPathDone /\ ~fsExists /\ err = ErrBadPattern

\* an error that is a listing failure wrapping one of the causes
IsListingFailure(e, causes) ==
    /\ e.kind = "OperatorErr"
    /\ e.Type = ErrContainerList
    /\ e.Err \in causes

FailedCauses == {listed[k].err : k \in {j \in 1..Len(listed) : listed[j].err # Nil}}

\* C10: whenever a list query of the last call failed, the call returned a
\* listing failure (OperatorErr of Type ErrContainerList) wrapping the
\* backend's cause.
C10_ListFailureSurfaced ==
    FailedCauses # {} => IsListingFailure(err, FailedCauses)

(***************************************************************************)
(* SpecConc: goroutines sharing one Operator                               *)
(*                                                                         *)
(* The Operator has no lock.  Each goroutine makes one call: it queries    *)
(* the backend, then loops over the list with one map access per           *)
(* container (GetNewContainerIDs and GetNewContainerIDByName reach the map *)
(* only through GetNewContainers).  A map write takes two steps, as the    *)
(* runtime's mapassign sets and clears its writing flag around the store.  *)
(* An access that overlaps another goroutine's write is a data race: the   *)
(* runtime may throw its fatal "concurrent map" error, a read may see the  *)
(* map before or after the write, and a write may complete from the map    *)
(* contents it started with, or from those a write it overlaps started     *)
(* with: the map of NewOperator has no bucket until its first store, so    *)
(* an overlapping first store can replace the bucket the other stores      *)
(* went to, and two stores can take the same free slot.  snap[p] holds     *)
(* these map contents for the write p has in progress.                     *)
(***************************************************************************)
ConcLists == PathLists

Writers(p) == {q \in Procs \ {p} : pc[q] = "writing"}

\* the map of Init, with the backend holding one of the lists of ConcLists
InitConc ==
    /\ existingContainers = {}
    /\ observed = {}
    /\ gone = {}
    /\ lastListed = {}
    /\ live \in ConcLists
    /\ NoUtil
    /\ NoCall
    /\ NoPath
    /\ NoProcs

ConcBackendChange ==
    /\ ~crashed
    /\ live' \in ConcLists \ {live}
    /\ UNCHANGED <<existingContainers, histVars, opVars, pathVars, utilVars, concVars>>

\* lines 130 and 145: the call starts with GetCurrentContainers
ConcList(p, k) ==
    /\ ~crashed
    /\ pc[p] = "idle"
    /\ \E answer \in ClientAnswers(live) :
        LET got == GetCurrentContainers(answer) IN
        /\ kind' = [kind EXCEPT ![p] = k]
        /\ cur' = [cur EXCEPT ![p] = got.val]
        /\ idx' = [idx EXCEPT ![p] = 1]
        /\ pc' = [pc EXCEPT ![p] = IF got.err # Nil THEN "failed" ELSE "loop"]
        /\ IF k = "RememberCurrentContainerIDs" /\ got.err = Nil
           THEN /\ allListed' = allListed \cup IDsOf(got.val)
                /\ atomicSets' = atomicSets \cup {S \cup IDsOf(got.val) : S \in atomicSets}
           ELSE UNCHANGED <<allListed, atomicSets>>
    /\ UNCHANGED <<existingContainers, live, histVars, opVars, pathVars, utilVars,
                   out, snap, racy, crashed>>

\* line 136, entry of the map store
ConcWriteBegin(p) ==
    /\ ~crashed
    /\ pc[p] = "loop"
    /\ kind[p] = "RememberCurrentContainerIDs"
    /\ idx[p] <= Len(cur[p])
    /\ \/ /\ pc' = [pc EXCEPT ![p] = "writing"]
          /\ snap' = [snap EXCEPT ![p] = {existingContainers}
                                           \cup UNION {snap[q] : q \in Writers(p)}]
          /\ racy' = [q \in Procs |-> IF Writers(p) # {} /\ (q = p \/ q \in Writers(p))
                                      THEN TRUE ELSE racy[q]]
          /\ UNCHANGED crashed
       \/ /\ Writers(p) # {}
          /\ crashed' = TRUE
          /\ UNCHANGED <<pc, snap, racy>>
    /\ UNCHANGED <<existingContainers, live, histVars, opVars, pathVars, utilVars,
                   kind, cur, idx, out, atomicSets, allListed>>

\* line 136, the store itself
ConcWriteEnd(p) ==
    /\ ~crashed
    /\ pc[p] = "writing"
    /\ LET id == cur[p][idx[p]].ID IN
       \/ /\ existingContainers' = existingContainers \cup {id}
          /\ UNCHANGED crashed
       \/ /\ racy[p]
          /\ \E started \in snap[p] : existingContainers' = started \cup {id}
          /\ UNCHANGED crashed
       \/ /\ racy[p]
          /\ crashed' = TRUE
          /\ UNCHANGED existingContainers
    /\ pc' = [pc EXCEPT ![p] = "loop"]
    /\ idx' = [idx EXCEPT ![p] = idx[p] + 1]
    /\ racy' = [racy EXCEPT ![p] = FALSE]
    /\ snap' = [snap EXCEPT ![p] = {}]
    /\ UNCHANGED <<live, histVars, opVars, pathVars, utilVars, kind, cur, out, atomicSets, allListed>>

\* lines 153-155: one map lookup and the append
ConcRead(p) ==
    /\ ~crashed
    /\ pc[p] = "loop"
    /\ kind[p] = "GetNewContainers"
    /\ idx[p] <= Len(cur[p])
    /\ LET c      == cur[p][idx[p]]
           during == {cur[q][idx[q]].ID : q \in Writers(p)}
       IN
       \/ \E seen \in {existingContainers} \cup {existingContainers \cup {w} : w \in during} :
            /\ out' = [out EXCEPT ![p] = IF c.ID \notin seen THEN Append(out[p], c)
                                         ELSE out[p]]
            /\ idx' = [idx EXCEPT ![p] = idx[p] + 1]
            /\ UNCHANGED crashed
       \/ /\ Writers(p) # {}
          /\ crashed' = TRUE
          /\ UNCHANGED <<out, idx>>
    /\ UNCHANGED <<existingContainers, live, histVars, opVars, pathVars, utilVars,
                   pc, kind, cur, snap, racy, atomicSets, allListed>>

\* lines 139 and 158: the loop is over
ConcReturn(p) ==
    /\ ~crashed
    /\ pc[p] = "loop"
    /\ idx[p] > Len(cur[p])
    /\ pc' = [pc EXCEPT ![p] = "done"]
    /\ UNCHANGED <<existingContainers, live, histVars, opVars, pathVars, utilVars,
                   kind, cur, idx, out, snap, racy, crashed, atomicSets, allListed>>

NextConc ==
    \/ ConcBackendChange
    \/ \E p \in Procs : ConcList(p, "RememberCurrentContainerIDs")
    \/ \E p \in Procs : ConcList(p, "GetNewContainers")
    \/ \E p \in Procs : ConcWriteBegin(p)
    \/ \E p \in Procs : ConcWriteEnd(p)
    \/ \E p \in Procs : ConcRead(p)
    \/ \E p \in Procs : ConcReturn(p)

SpecConc == InitConc /\ [][NextConc]_vars

(***************************************************************************)
(* Properties of concurrent use (SpecConc)                                 *)
(***************************************************************************)
\* C3: the result of a GetNewContainers call that ran beside Remember calls
\* is the diff of its list against a set made of whole unions only: the map
\* before or after each Remember call's union, never with part of one.
C3_UnionAtomicForReaders ==
    \A p \in Procs :
        (pc[p] = "done" /\ kind[p] = "GetNewContainers") =>
            \E S \in atomicSets :
                out[p] = SelectSeq(cur[p], LAMBDA c : c.ID \notin S)

\* C4: no Remember call brings the Operator down, and once every call has
\* returned the map holds the previous set and every ID listed to a Remember
\* call.
C4_ConcurrentRemembersCompose ==
    /\ ~crashed
    /\ (\A p \in Procs : pc[p] \in {"done", "failed"}) => existingContainers = allListed

(***************************************************************************)
(* Cancellation, retries and the first line of an ID file (SpecPath)       *)
(***************************************************************************)
\* C11: when the backend answered a list query of the last call with its
\* cancellation error, the call returned a non-nil error, and not the error
\* it returns for an ordinary backend failure.
C11_CancellationDistinct ==
    (\E k \in 1..Len(listed) : listed[k] = ListFail(ErrCanceled)) =>
        /\ err # Nil
        /\ err # OperatorErr(ErrContainerList, ErrBackend)

\* C12: once a list query of a call has failed the call makes no further
\* list query and returns that failure.
C12_NoQueryAfterFailure ==
    \A k \in 1..Len(listed) :
        listed[k].err # Nil =>
            /\ k = Len(listed)
            /\ IsListingFailure(err, {listed[k].err})

\* the first line of a file: what precedes its first newline
FirstLine(s) ==
    LET nl == {i \in 1..Len(s) : s[i] = LF} IN
    IF nl = {} THEN s
    ELSE SubSeq(s, 1, (CHOOSE i \in nl : \A j \in nl : i <= j) - 1)

\* C13: when the first line of the file at the given path is the ID of a
\* live container, GetContainerIDByPath returns that ID and a nil error,
\* whatever follows the first line.
C13_FirstLineIsReturned ==
    (/\ ByPathDone
     /\ fsExists
     /\ Readable(fsFile)
     /\ AnswerAt(answers, 1).err = Nil
     /\ FirstLine(fsFile.content) \in IDsOf(AnswerAt(answers, 1).list)) =>
        /\ ret = FirstLine(fsFile.content)
        /\ err = Nil

(***************************************************************************)
(* Lookup by name, stats and kill (Spec)                                   *)
(***************************************************************************)
\* an alias without its one leading "/", if it has one
StripOne(alias) == IF Len(alias) > 0 /\ alias[1] = "/" THEN Tail(alias) ELSE alias

Carries(c, name) == \E i \in 1..Len(c.Names) : StripOne(c.Names[i]) = name

\* the ID of the first container of l that carries name, "" if none does
FirstCarrying(l, name) ==
    LET hits == {i \in 1..Len(l) : Carries(l[i], name)} IN
    IF hits = {} THEN EmptyStr
    ELSE l[CHOOSE i \in hits : \A j \in hits : i <= j].ID

\* C14: GetNewContainerIDByName returns the ID of the first new container, in
\* GetNewContainers order, one of whose aliases equals the name once exactly
\* one leading "/" is removed, and ("", nil) when no new container has one.
C14_FirstNewByName ==
    (op = "GetNewContainerIDByName" /\ listed[1].err = Nil) =>
        /\ err = Nil
        /\ ret = FirstCarrying(
                   SelectSeq(ListedC, LAMBDA c : c.ID \notin existingContainers), arg)

\* "//f" is passed over and the first of two containers named f is returned
C14_Witness ==
    /\ op = "GetNewContainerIDByName"
    /\ arg = <<"f">>
    /\ existingContainers = {}
    /\ ListedC = <<ContC, ContB, ContA>>
    /\ ret = ContB.ID

\* only a remembered container carries the name: ("", nil)
C14_RememberedOnlyReached ==
    /\ op = "GetNewContainerIDByName"
    /\ arg = <<"g">>
    /\ ContB.ID \in existingContainers
    /\ ListedC = <<ContA, ContB>>
    /\ ret = EmptyStr
    /\ err = Nil

\* C15: the candidates of GetNewContainerIDByName are the live containers
\* whose ID was not in the list of the latest successful
\* RememberCurrentContainerIDs call.
C15_OnlyLastRememberCounts ==
    (op = "GetNewContainerIDByName" /\ err = Nil) =>
        ret = FirstCarrying(SelectSeq(ListedC, LAMBDA c : c.ID \notin lastListed), arg)

\* C16: ContainerStats and KillContainer hand on the backend's outcome: on
\* failure exactly the backend's error, not an OperatorErr, and no Stats; on
\* success the backend's Stats, and nil from KillContainer.
C16_StatsAndKillPassThrough ==
    /\ op = "ContainerStats" =>
           /\ err = reply.err
           /\ ret = IF reply.err # Nil THEN NilStats ELSE reply.stats
    /\ op = "KillContainer" => err = reply.err
    /\ op \in {"ContainerStats", "KillContainer"} => err.kind # "OperatorErr"

\* a failed stats query
C16_Witness ==
    /\ op = "ContainerStats"
    /\ reply.err = ErrBackend
    /\ err = ErrBackend
    /\ ret = NilStats

(***************************************************************************)
(* internal.TildaToHome (SpecTilda)                                        *)
(*                                                                         *)
(* filepath.Join and filepath.Clean are modelled on "/"-separated paths:   *)
(* Clean drops empty and "." elements, resolves ".." against the element   *)
(* before it, and yields "." for an empty result.                          *)
(***************************************************************************)
Dot    == <<".">>
DotDot == <<".", ".">>

\* the "/"-separated elements of s from position i on
RECURSIVE SplitSlash(_, _, _, _)
SplitSlash(s, i, elems, elem) ==
    IF i > Len(s) THEN Append(elems, elem)
    ELSE IF s[i] = "/" THEN SplitSlash(s, i + 1, Append(elems, elem), << >>)
    ELSE SplitSlash(s, i + 1, elems, Append(elem, s[i]))

RECURSIVE CleanLoop(_, _, _, _)
CleanLoop(elems, i, kept, rooted) ==
    IF i > Len(elems) THEN kept
    ELSE LET e == elems[i] IN
         IF e = << >> \/ e = Dot THEN CleanLoop(elems, i + 1, kept, rooted)
         ELSE IF e = DotDot
              THEN IF Len(kept) > 0 /\ kept[Len(kept)] # DotDot
                   THEN CleanLoop(elems, i + 1, SubSeq(kept, 1, Len(kept) - 1), rooted)
                   ELSE IF rooted THEN CleanLoop(elems, i + 1, kept, rooted)
                   ELSE CleanLoop(elems, i + 1, Append(kept, e), rooted)
              ELSE CleanLoop(elems, i + 1, Append(kept, e), rooted)

RECURSIVE JoinSlash(_, _)
JoinSlash(elems, i) ==
    IF i > Len(elems) THEN << >>
    ELSE IF i = Len(elems) THEN elems[i]
    ELSE elems[i] \o <<"/">> \o JoinSlash(elems, i + 1)

Clean(path) ==
    IF path = EmptyStr THEN Dot
    ELSE LET rooted == path[1] = "/"
             kept   == CleanLoop(SplitSlash(path, 1, << >>, << >>), 1, << >>, rooted)
             res    == (IF rooted THEN <<"/">> ELSE << >>) \o JoinSlash(kept, 1)
         IN  IF res = EmptyStr THEN Dot ELSE res

\* filepath.Join of two elements
Join(a, b) ==
    IF a # EmptyStr THEN Clean(a \o <<"/">> \o b)
    ELSE IF b # EmptyStr THEN Clean(b)
    ELSE EmptyStr

\* userHome is the result of os.UserHomeDir
TildaToHome(path, userHome) ==
    IF path = EmptyStr THEN EmptyStr
    ELSE IF userHome.err = Nil /\ userHome.dir # EmptyStr /\ HasPrefix(path, <<"~", "/">>)
         THEN Join(userHome.dir, TrimLeft(path, {"~", "/"}))
         ELSE path

ErrNoHome == [kind |-> "os", msg |-> "$HOME is not defined"]

PathChars == {"~", "/", "x", "."}
Paths     == SeqsUpTo(PathChars, MaxPathLen)
Homes     == {[dir |-> <<"/", "h">>, err |-> Nil],
              [dir |-> EmptyStr, err |-> Nil],
              [dir |-> EmptyStr, err |-> ErrNoHome]}

InitTilda ==
    /\ existingContainers = {}
    /\ observed = {}
    /\ gone = {}
    /\ lastListed = {}
    /\ live = << >>
    /\ op = "NewOperator"
    /\ arg \in Paths
    /\ ret = << >>
    /\ err = Nil
    /\ listed = << >>
    /\ log = << >>
    /\ reply = NoReply
    /\ NoPath
    /\ NoProcs
    /\ home \in Homes
    /\ certArgs = << >>
    /\ certFS = << >>

CallTildaToHome ==
    /\ op = "NewOperator"
    /\ op' = "TildaToHome"
    /\ ret' = TildaToHome(arg, home)
    /\ UNCHANGED <<existingContainers, live, histVars, pathVars, concVars, utilVars,
                   arg, err, listed, log, reply>>

NextTilda == CallTildaToHome

SpecTilda == InitTilda /\ [][NextTilda]_vars

\* C17: TildaToHome returns "" for ""; for a path beginning with "~/", when
\* the home directory is known, the home directory joined with what follows
\* that one leading "~/"; and any other path, or any path when the home
\* directory is not known, unaltered.
C17_TildaToHome ==
    op = "TildaToHome" =>
        ret = IF arg = EmptyStr THEN EmptyStr
              ELSE IF /\ home.err = Nil
                      /\ home.dir # EmptyStr
                      /\ Len(arg) >= 2
                      /\ arg[1] = "~"
                      /\ arg[2] = "/"
                   THEN Join(home.dir, SubSeq(arg, 3, Len(arg)))
                   ELSE arg

(***************************************************************************)
(* internal.GenerateCerts (SpecCerts)                                      *)
(*                                                                         *)
(* certFS maps each path to the file there, or Absent.  The bytes of a     *)
(* file are a sequence of chunks, so that overwriting a file without       *)
(* truncating it, and a write that fails part way, leave what the file     *)
(* system would leave.                                                     *)
(* os.Stat on a path succeeds exactly when a file is there.  The steps     *)
(* that can fail for reasons outside the program (key generation, serial   *)
(* number, certificate creation and parsing, open, encode, close) fail     *)
(* when the call's fault names them.                                       *)
(***************************************************************************)
ErrParseCert  == "could not be parsed"
ErrCreateCert == "could not be created"
ErrExistsCert == "already exists"
ErrEncodeCert == "could not encode"

\* CertError as a value, and as the pointer checkIfCertsExist returns
CertError(type, path, cause)    == [kind |-> "CertError", Type |-> type, Path |-> path, Err |-> cause]
CertErrorPtr(type, path, cause) == [kind |-> "*CertError", Type |-> type, Path |-> path, Err |-> cause]
NumberError(cause)              == [kind |-> "*NumberError", Err |-> cause]

ErrRSA  == [kind |-> "rsa"]
ErrRand == [kind |-> "rand"]
ErrX509 == [kind |-> "x509"]
ErrOS   == [kind |-> "os"]
ErrPEM  == [kind |-> "pem"]

\* n chunks of the bytes called name
Chunks(name, n) == [i \in 1..n |-> <<name, i>>]

CertFile(bytes) == [there |-> TRUE, bytes |-> bytes]
Absent          == [there |-> FALSE, bytes |-> << >>]
OldContent      == CertFile(Chunks("old", 4))
EmptyFile       == CertFile(<< >>)

\* the chunks an RSA modulus of that many bits takes
KeyChunks(bits) == bits \div 256

\* the template of certTemplate; SerialNumber is the number of chunks the
\* random serial number takes
Template(serial) ==
    [SerialNumber |-> serial, IsCA |-> FALSE,
     KeyUsage |-> {"KeyEncipherment", "DigitalSignature"}]

\* the template of the root certificate: a CA that may sign certificates
CATemplate(template) ==
    [template EXCEPT !.IsCA = TRUE, !.KeyUsage = @ \cup {"CertSign"}]

\* The PEM encoding of the certificate x509.CreateCertificate makes from a
\* template.  It holds the serial number, what marks a CA (more than any
\* serial number takes, less than a key), the public key of the subject and
\* a signature as long as the parent's key; the key usage is a bit field of
\* one length whatever it holds.
Certificate(template, pubKeyBits, parentKeyBits) ==
    Chunks(IF ~template.IsCA THEN "server certificate"
           ELSE IF "CertSign" \in template.KeyUsage THEN "root certificate"
           ELSE "CA certificate that cannot sign",
           template.SerialNumber + (IF template.IsCA THEN 2 ELSE 0)
               + KeyChunks(pubKeyBits) + KeyChunks(parentKeyBits))

\* randReader gives the serial numbers of the two templates
RootCert(bitsForRootRSAKey, randReader) ==
    Certificate(CATemplate(Template(randReader.rootSerial)),
                bitsForRootRSAKey, bitsForRootRSAKey)
ServerCert(bitsForRootRSAKey, bitsForServerRSAKey, randReader) ==
    Certificate(Template(randReader.serverSerial), bitsForServerRSAKey, bitsForRootRSAKey)
ServerKey(bitsForServerRSAKey) ==
    Chunks("server key", 4 * KeyChunks(bitsForServerRSAKey))

\* writing bytes from offset 0 into a file holding old
Overwrite(old, bytes) == bytes \o SubSeq(old, Len(bytes) + 1, Len(old))

certFileFlags  == {"O_RDWR", "O_CREATE", "O_TRUNC"}
serverKeyFlags == {"O_WRONLY", "O_CREATE", "O_TRUNC"}

\* checkIfCertsExist that looks at the first file only
RECURSIVE checkLoopFirstOnly(_, _, _)
checkLoopFirstOnly(certFiles, fs, i) ==
    IF i > 1 THEN Nil
    ELSE IF fs[certFiles[i]] # Absent
         THEN CertErrorPtr(ErrExistsCert, certFiles[i], Nil)
         ELSE checkLoopFirstOnly(certFiles, fs, i + 1)

\* the loop of checkIfCertsExist from position i on
RECURSIVE checkLoop(_, _, _)
checkLoop(certFiles, fs, i) ==
    IF i > Len(certFiles) THEN Nil
    ELSE IF fs[certFiles[i]] # Absent
         THEN CertErrorPtr(ErrExistsCert, certFiles[i], Nil)
         ELSE checkLoop(certFiles, fs, i + 1)

checkIfCertsExist(certFiles, fs) == checkLoop(certFiles, fs, 1)

CertResult(e, fs) == [err |-> e, fs |-> fs]

\* which names the file being saved: "CA", "Pem" or "Key".  fault.at is
\* the step that fails and, for a failing pem.Encode, fault.written the
\* number of chunks of the block that reached the file before the Write
\* that failed.
encodeAndSavePEM(block, certPath, flags, fs, fault, which) ==
    IF fault.at = "open" \o which \/ (fs[certPath] = Absent /\ "O_CREATE" \notin flags)
    THEN CertResult(CertError(ErrCreateCert, certPath, ErrOS), fs)
    ELSE LET opened == IF fs[certPath] = Absent \/ "O_TRUNC" \in flags
                       THEN EmptyFile
                       ELSE fs[certPath]
             saved(bytes) ==
                 [fs EXCEPT ![certPath] = CertFile(Overwrite(opened.bytes, bytes))]
         IN  IF fault.at = "encode" \o which
             THEN CertResult(CertError(ErrEncodeCert, certPath, ErrPEM),
                             saved(SubSeq(block, 1, fault.written)))
             ELSE CertResult(IF fault.at = "close" \o which THEN ErrOS ELSE Nil,
                             saved(block))

parseCertAndSavePEM(block, certPath, flags, fs, fault, which) ==
    IF fault.at = "parse" \o which
    THEN CertResult(CertError(ErrParseCert, certPath, ErrX509), fs)
    ELSE encodeAndSavePEM(block, certPath, flags, fs, fault, which)

\* signs the template's certificate for the key pubKey with the parent's key
createCertFromTemplate(template, pubKeyBits, parentKeyBits, fault, which) ==
    IF fault.at = "create" \o which
    THEN [err |-> CertError(ErrCreateCert, EmptyStr, ErrX509), der |-> << >>]
    ELSE [err |-> Nil, der |-> Certificate(template, pubKeyBits, parentKeyBits)]

generateRootCert(caFile, template, bitsForRootRSAKey, fileFlags, fs, fault) ==
    LET created == createCertFromTemplate(template, bitsForRootRSAKey, bitsForRootRSAKey,
                                          fault, "CA") IN
    IF created.err # Nil THEN CertResult(created.err, fs)
    ELSE parseCertAndSavePEM(created.der, caFile, fileFlags, fs, fault, "CA")

generateServerCert(serverPemFile, template, bitsForRootRSAKey, bitsForServerRSAKey, fileFlags, fs, fault) ==
    LET created == createCertFromTemplate(template, bitsForServerRSAKey, bitsForRootRSAKey,
                                          fault, "Pem") IN
    IF created.err # Nil THEN CertResult(created.err, fs)
    ELSE parseCertAndSavePEM(created.der, serverPemFile, fileFlags, fs, fault, "Pem")

\* serial is what randReader gives for this template
certTemplate(serial, fault, which) ==
    IF fault.at = "serial" \o which
    THEN [err |-> NumberError(ErrRand), template |-> Template(serial)]
    ELSE [err |-> Nil, template |-> Template(serial)]

generateCertificates(caFile, bitsForRootRSAKey, bitsForServerRSAKey, serverPemFile, randReader, fileFlags, fs, fault) ==
    LET first  == certTemplate(randReader.rootSerial, fault, "CA")
        second == certTemplate(randReader.serverSerial, fault, "Pem")
    IN  IF first.err # Nil THEN CertResult(first.err, fs)
        ELSE IF second.err # Nil THEN CertResult(second.err, fs)
        ELSE LET root == generateRootCert(caFile, CATemplate(first.template),
                                          bitsForRootRSAKey, fileFlags, fs, fault) IN
             IF root.err # Nil THEN root
             ELSE generateServerCert(serverPemFile, second.template, bitsForRootRSAKey,
                                     bitsForServerRSAKey, fileFlags, root.fs, fault)

GenerateCerts(caFile, serverPemFile, serverKeyFile, bitsForRootRSAKey, bitsForServerRSAKey, randReader, fileFlags, fs, fault) ==
    LET exists == checkIfCertsExist(<<caFile, serverPemFile, serverKeyFile>>, fs) IN
    IF exists # Nil THEN CertResult(exists, fs)
    ELSE IF fault.at = "rootKey" \/ fault.at = "serverKey" THEN CertResult(ErrRSA, fs)
    ELSE LET made == generateCertificates(caFile, bitsForRootRSAKey, bitsForServerRSAKey,
                                          serverPemFile, randReader, fileFlags, fs, fault) IN
         IF made.err # Nil THEN made
         ELSE encodeAndSavePEM(ServerKey(bitsForServerRSAKey), serverKeyFile,
                               serverKeyFlags, made.fs, fault, "Key")

Saved       == {"CA", "Pem", "Key"}
CertPaths   == {"ca.pem", "cert.pem", "key.pem"}
FileFlags   == {certFileFlags, {"O_RDWR", "O_CREATE"}, {"O_RDWR"}}
KeyBits     == {1024, 2048}
SerialLens  == 1..2
RandReaders == [rootSerial : SerialLens, serverSerial : SerialLens]
CertArgs    == [caFile : CertPaths, serverPemFile : CertPaths, serverKeyFile : CertPaths,
                bitsForRootRSAKey : KeyBits, bitsForServerRSAKey : KeyBits,
                fileFlags : FileFlags]

\* the block saved to the file which names, for a call with these arguments
BlockOf(which, args, randReader) ==
    IF which = "CA" THEN RootCert(args.bitsForRootRSAKey, randReader)
    ELSE IF which = "Pem"
         THEN ServerCert(args.bitsForRootRSAKey, args.bitsForServerRSAKey, randReader)
         ELSE ServerKey(args.bitsForServerRSAKey)

Fault(at, written) == [at |-> at, written |-> written]

\* the ways a call with these arguments can fail
Faults(args, randReader) ==
    {Fault(at, 0) : at \in {"none", "rootKey", "serverKey"}}
        \cup {Fault(step \o which, 0) : step \in {"open", "close"}, which \in Saved}
        \cup {Fault(step \o which, 0) : step \in {"serial", "create", "parse"},
                                        which \in {"CA", "Pem"}}
        \cup UNION {{Fault("encode" \o which, n) :
                        n \in 0..(Len(BlockOf(which, args, randReader)) - 1)} :
                    which \in Saved}

InitCerts ==
    /\ existingContainers = {}
    /\ observed = {}
    /\ gone = {}
    /\ lastListed = {}
    /\ live = << >>
    /\ NoCall
    /\ NoPath
    /\ NoProcs
    /\ home = [dir |-> EmptyStr, err |-> Nil]
    /\ certArgs \in CertArgs
    /\ certFS \in [CertPaths -> {Absent, OldContent}]

CallGenerateCerts ==
    /\ op = "NewOperator"
    /\ \E randReader \in RandReaders :
       \E fault \in Faults(certArgs, randReader) :
         LET r == GenerateCerts(certArgs.caFile, certArgs.serverPemFile,
                                certArgs.serverKeyFile, certArgs.bitsForRootRSAKey,
                                certArgs.bitsForServerRSAKey, randReader,
                                certArgs.fileFlags, certFS, fault)
         IN  /\ op' = "GenerateCerts"
             /\ err' = r.err
             /\ certFS' = r.fs
    /\ UNCHANGED <<existingContainers, live, histVars, pathVars, concVars,
                   arg, ret, listed, log, reply, home, certArgs>>

NextCerts == CallGenerateCerts

SpecCerts == InitCerts /\ [][NextCerts]_vars

GivenFiles == {certArgs.caFile, certArgs.serverPemFile, certArgs.serverKeyFile}

\* C18: when the CA file, the server PEM file or the server key file already
\* exists, GenerateCerts returns an error and leaves every file as it was.
C18_ExistingFilesUntouched ==
    [][(op' = "GenerateCerts" /\ \E f \in GivenFiles : certFS[f] # Absent) =>
           /\ err' # Nil
           /\ certFS' = certFS]_vars

\* only the server key file, checked last, was there before the call
C18_Witness ==
    /\ op = "GenerateCerts"
    /\ err = CertErrorPtr(ErrExistsCert, certArgs.serverKeyFile, Nil)
    /\ certFS[certArgs.caFile] = Absent
    /\ certFS[certArgs.serverPemFile] = Absent
    /\ certFS[certArgs.serverKeyFile] = OldContent

\* with no file there and nothing failing, all three files are written
C18_AllWritten ==
    /\ op = "GenerateCerts"
    /\ err = Nil
    /\ \E randReader \in RandReaders :
          /\ certFS[certArgs.caFile] = CertFile(BlockOf("CA", certArgs, randReader))
          /\ certFS[certArgs.serverPemFile] = CertFile(BlockOf("Pem", certArgs, randReader))
    /\ certFS[certArgs.serverKeyFile] = CertFile(ServerKey(certArgs.bitsForServerRSAKey))

\* pem.Encode failed on the server key after part of it was written
C18_PartialKeyLeft ==
    /\ op = "GenerateCerts"
    /\ err = CertError(ErrEncodeCert, certArgs.serverKeyFile, ErrPEM)
    /\ certFS[certArgs.serverKeyFile]
           = CertFile(SubSeq(ServerKey(certArgs.bitsForServerRSAKey), 1, 1))

\* one path given for the CA and the server certificate, opened without
\* O_TRUNC, and a root key larger than the server's: the end of the root
\* certificate stays behind the server certificate
C18_TailLeft ==
    /\ op = "GenerateCerts"
    /\ err = Nil
    /\ certArgs.caFile = certArgs.serverPemFile
    /\ certArgs.bitsForRootRSAKey > certArgs.bitsForServerRSAKey
    /\ \E randReader \in RandReaders :
          LET root   == BlockOf("CA", certArgs, randReader)
              server == BlockOf("Pem", certArgs, randReader)
          IN  /\ Len(root) > Len(server)
              /\ certFS[certArgs.caFile]
                     = CertFile(server \o SubSeq(root, Len(server) + 1, Len(root)))

\* the same with keys of one size, whatever the serial numbers: what marks the
\* root certificate as a CA makes it the longer one, and its end stays behind
C18_TailLeftEqualKeys ==
    /\ op = "GenerateCerts"
    /\ err = Nil
    /\ certArgs.caFile = certArgs.serverPemFile
    /\ "O_TRUNC" \notin certArgs.fileFlags
    /\ certArgs.bitsForRootRSAKey = certArgs.bitsForServerRSAKey
    /\ \E randReader \in RandReaders :
          LET root   == BlockOf("CA", certArgs, randReader)
              server == BlockOf("Pem", certArgs, randReader)
          IN  /\ randReader.serverSerial > randReader.rootSerial
              /\ Len(root) > Len(server)
              /\ certFS[certArgs.caFile]
                     = CertFile(server \o SubSeq(root, Len(server) + 1, Len(root)))

\* for keys of one size the root certificate is the longer one, and a serial
\* number never weighs as much as 1024 bits of key
C18_CertificateLengths ==
    \A randReader \in RandReaders : \A small \in KeyBits : \A large \in KeyBits :
        /\ Len(RootCert(small, randReader)) > Len(ServerCert(small, small, randReader))
        /\ small < large =>
              /\ Len(ServerCert(small, large, randReader)) > Len(RootCert(small, randReader))
              /\ Len(RootCert(large, randReader)) > Len(ServerCert(large, small, randReader))

\* the same with a server key larger than the root's: the server certificate
\* covers the root certificate and nothing stays behind it
C18_NoTailLeft ==
    /\ op = "GenerateCerts"
    /\ err = Nil
    /\ certArgs.caFile = certArgs.serverPemFile
    /\ "O_TRUNC" \notin certArgs.fileFlags
    /\ certArgs.bitsForRootRSAKey < certArgs.bitsForServerRSAKey
    /\ \E randReader \in RandReaders :
          certFS[certArgs.caFile] = CertFile(BlockOf("Pem", certArgs, randReader))

(***************************************************************************)
(* Live diff and frame of the remembered set (Spec)                        *)
(***************************************************************************)
ListingOps == {"GetCurrentContainers", "RememberCurrentContainerIDs", "GetNewContainers",
               "GetNewContainerIDs", "GetNewContainerIDByName"}

NotRemembered(l) == SelectSeq(l, LAMBDA c : c.ID \notin existingContainers)

\* C19: each call of the five listing methods makes exactly one list query,
\* answered from the containers live at the call, and its result is computed
\* from that answer and the remembered set alone: GetNewContainers reports
\* the live containers that are not remembered, whatever earlier calls
\* returned.
C19_LiveDiff ==
    [][(opVars' # opVars /\ op' \in ListingOps) =>
           /\ Len(listed') = 1
           /\ listed'[1] \in ClientAnswers(live)
           /\ listed'[1].err = Nil =>
                /\ err' = Nil
                /\ listed'[1].list = live
                /\ op' = "GetCurrentContainers" => ret' = live
                /\ op' = "RememberCurrentContainerIDs" =>
                       existingContainers' = existingContainers \cup IDsOf(live)
                /\ op' = "GetNewContainers" => ret' = NotRemembered(live)
                /\ op' = "GetNewContainerIDs" =>
                       ret' = [k \in 1..Len(NotRemembered(live)) |-> NotRemembered(live)[k].ID]
                /\ op' = "GetNewContainerIDByName" =>
                       ret' = FirstCarrying(NotRemembered(live), arg')]_vars

\* after Remember saw ContA only, ContA stopped and ContB started, and
\* GetNewContainers reports ContB alone
C19_Witness ==
    /\ op = "GetNewContainers"
    /\ err = Nil
    /\ lastListed = {ContA.ID}
    /\ existingContainers = {ContA.ID}
    /\ ContA.ID \in gone
    /\ ret = <<ContB>>

\* C20: the remembered set changes only in a successful
\* RememberCurrentContainerIDs call, which adds the listed IDs; every other
\* method, KillContainer included, leaves it as it was.
C20_OnlyRememberChangesSet ==
    [][existingContainers' # existingContainers =>
           /\ op' = "RememberCurrentContainerIDs"
           /\ opVars' # opVars
           /\ err' = Nil
           /\ existingContainers' = existingContainers \cup IDsOf(listed'[1].list)]_vars

\* a remembered container was killed, has left the backend's list, and is
\* still remembered
C20_Witness ==
    /\ op = "KillContainer"
    /\ err = Nil
    /\ arg \in existingContainers
    /\ arg \notin IDsOf(live)
    /\ arg \in gone

\* GetContainerIDByPath failed, and succeeded, with IDs remembered
C20_ByPathFailed ==
    /\ op = "GetContainerIDByPath"
    /\ err # Nil
    /\ existingContainers # {}

C20_ByPathFound ==
    /\ op = "GetContainerIDByPath"
    /\ err = Nil
    /\ ret \in existingContainers

\* C21: a RememberCurrentContainerIDs call whose list query fails returns the
\* listing failure with the backend's error as its cause, and the remembered
\* set after the call is the one before it.
C21_FailedRememberAddsNothing ==
    [][(opVars' # opVars /\ op' = "RememberCurrentContainerIDs"
            /\ listed'[1].err # Nil) =>
           /\ IsListingFailure(err', {listed'[1].err})
           /\ existingContainers' = existingContainers]_vars

\* the failed call had IDs to keep and a live container it would have added
C21_Witness ==
    /\ op = "RememberCurrentContainerIDs"
    /\ err = OperatorErr(ErrContainerList, ErrBackend)
    /\ existingContainers = {ContA.ID}
    /\ live = <<ContA, ContB>>

(***************************************************************************)
(* The file at the exact path (SpecPath)                                   *)
(***************************************************************************)
\* C22: when a file exists at the exact path, the call reads that file and no
\* glob match, makes at most one list query, and its result is the one that
\* file and that query give, whatever the path matches as a glob pattern: a
\* malformed pattern is no error and a match holding a live ID is not used.
C22_ExactPathTakesPrecedence ==
    (ByPathDone /\ fsExists) =>
        /\ ReadsOf(log) = <<ReadEv(0)>>
        /\ Len(listed) = (IF Readable(fsFile) THEN 1 ELSE 0)
        /\ ~Readable(fsFile) => (ret = EmptyStr /\ err = fsFile.err)
        /\ (Readable(fsFile) /\ answers[1].err # Nil) =>
               (ret = EmptyStr /\ IsListingFailure(err, {answers[1].err}))
        /\ (Readable(fsFile) /\ answers[1].err = Nil) =>
               /\ err = Nil
               /\ ret = IF Candidate(fsFile) \in IDsOf(answers[1].list)
                        THEN Candidate(fsFile) ELSE EmptyStr

\* the exact file holds an ID that is not live while the one glob match holds
\* the ID of the live container
C22_Witness ==
    /\ ByPathDone
    /\ fsExists
    /\ fsFile = File(<<"a", LF>>)
    /\ fsGlob = GlobOK(<<File(<<"b", LF>>)>>)
    /\ listed = <<ListOK(<<ContB>>)>>
    /\ ret = EmptyStr
    /\ err = Nil

\* a file exists at the exact path and the path is a malformed pattern
C22_BadPatternIgnored ==
    /\ ByPathDone
    /\ fsExists
    /\ fsGlob = GlobBad
    /\ ret = ContA.ID
    /\ err = Nil

\* C23: the candidate ID of an ID file is its whole content less one trailing
\* newline when it ends in one: against a list holding a container with ID X
\* the file at the exact path gives X exactly when its content is X or X
\* followed by one newline, and a miss without error otherwise.
C23_OneTrailingNewline ==
    (ByPathDone /\ fsExists /\ Readable(fsFile) /\ answers[1].err = Nil) =>
        /\ err = Nil
        /\ \A X \in IDsOf(answers[1].list) :
               ret = X <=> fsFile.content \in {X, X \o <<LF>>}
        /\ (\A X \in IDsOf(answers[1].list) : fsFile.content \notin {X, X \o <<LF>>})
               => ret = EmptyStr

\* "a" followed by "\r\n" does not verify against the live container "a"
C23_Witness ==
    /\ ByPathDone
    /\ fsExists
    /\ fsFile = File(<<"a", CR, LF>>)
    /\ listed = <<ListOK(<<ContA>>)>>
    /\ ret = EmptyStr
    /\ err = Nil

\* the other contents the candidate rule tells apart
C23_BareReached ==
    ByPathDone /\ fsExists /\ fsFile = File(<<"a">>) /\ ret = ContA.ID

C23_OneNewlineReached ==
    ByPathDone /\ fsExists /\ fsFile = File(<<"a", LF>>) /\ ret = ContA.ID

C23_TwoNewlinesReached ==
    /\ ByPathDone /\ fsExists /\ fsFile = File(<<"a", LF, LF>>)
    /\ listed = <<ListOK(<<ContA>>)>> /\ ret = EmptyStr /\ err = Nil

C23_FurtherLineReached ==
    /\ ByPathDone /\ fsExists /\ fsFile = File(<<"a", LF, "b">>)
    /\ listed = <<ListOK(<<ContA, ContB>>)>> /\ ret = EmptyStr /\ err = Nil

AllUnreadable(paths) == \A i \in 1..Len(paths) : ~Readable(paths[i])

\* C24: when the file at the exact path exists and cannot be read, the call
\* returns "" with the read error as it came from the filesystem and makes
\* no list query; when instead the path exists only as a glob whose matches
\* cannot be read, the call returns "" with no error.
C24_UnreadableExactFileIsError ==
    /\ (ByPathDone /\ fsExists /\ ~Readable(fsFile)) =>
           /\ ret = EmptyStr
           /\ err = fsFile.err
           /\ err # Nil
           /\ listed = << >>
           /\ log = <<ReadEv(0)>>
    /\ (ByPathDone /\ ~fsExists /\ fsGlob.err = Nil /\ AllUnreadable(fsGlob.paths)) =>
           /\ ret = EmptyStr
           /\ err = Nil
           /\ listed = << >>

\* the exact file cannot be read although a glob match holds a live ID
C24_Witness ==
    /\ ByPathDone
    /\ fsExists
    /\ fsFile = UnreadableFile
    /\ fsGlob = GlobOK(<<File(<<"a", LF>>)>>)
    /\ answers[1] = ListOK(<<ContA>>)
    /\ err = ErrRead
    /\ listed = << >>

\* the glob branch: two matches, neither readable
C24_GlobSoftMissReached ==
    /\ ByPathDone
    /\ ~fsExists
    /\ fsGlob = GlobOK(<<UnreadableFile, UnreadableFile>>)
    /\ log = <<ReadEv(1), ReadEv(2)>>
    /\ err = Nil

====
